---- MODULE Spec2Model ----
(***************************************************************************)
(* The signed-and-encrypted token codec of the adonix API:                 *)
(* POST /token/encode and POST /token/decode                               *)
(* (src/src/services/token/token-router.ts).                               *)
(*                                                                         *)
(* JavaScript strings are sequences of code units (naturals), Buffers are  *)
(* sequences of bytes (0..255).  A call that can throw returns a record    *)
(* [ok |-> BOOLEAN, val |-> ...].                                          *)
(***************************************************************************)
EXTENDS Integers, Sequences, FiniteSets, TLC

(***************************************************************************)
(* Characters the handlers and the codecs they call treat specially.       *)
(***************************************************************************)
Dot == 46
EqualsSign == 61
Backslash == 92
DoubleQuote == 34
MaxLatin1 == 255
ReplacementChar == 65533

\* 'A'..'Z', 'a'..'z', '0'..'9', '+', '/'
Base64Chars ==
  << 65, 66, 67, 68, 69, 70, 71, 72, 73, 74, 75, 76, 77, 78, 79, 80,
     81, 82, 83, 84, 85, 86, 87, 88, 89, 90,
     97, 98, 99, 100, 101, 102, 103, 104, 105, 106, 107, 108, 109, 110,
     111, 112, 113, 114, 115, 116, 117, 118, 119, 120, 121, 122,
     48, 49, 50, 51, 52, 53, 54, 55, 56, 57, 43, 47 >>

\* '0'..'9', 'a'..'f'
HexChars ==
  << 48, 49, 50, 51, 52, 53, 54, 55, 56, 57, 97, 98, 99, 100, 101, 102 >>

\* tab, line feed, form feed, carriage return, space
AsciiWhitespace == {9, 10, 12, 13, 32}

Ok(v) == [ok |-> TRUE, val |-> v]
Throw(name) == [ok |-> FALSE, val |-> name]

(***************************************************************************)
(* Sequence helpers.                                                       *)
(***************************************************************************)
Take(s, n) == SubSeq(s, 1, n)
Drop(s, n) == SubSeq(s, n + 1, Len(s))
Repeat(v, n) == [i \in 1..n |-> v]
IndexOf(s, v) ==
  IF \E i \in 1..Len(s) : s[i] = v
  THEN CHOOSE i \in 1..Len(s) : s[i] = v /\ \A j \in 1..(i - 1) : s[j] # v
  ELSE 0
IsIn(s, v) == \E i \in 1..Len(s) : s[i] = v

RECURSIVE XorBits(_, _)
XorBits(a, b) ==
  IF a = 0 THEN b
  ELSE IF b = 0 THEN a
  ELSE ((a + b) % 2) + 2 * XorBits(a \div 2, b \div 2)

\* Bitwise exclusive or of two bytes, tabulated.
XorTable == [a \in 0..255 |-> [b \in 0..255 |-> XorBits(a, b)]]
Xor(a, b) == XorTable[a][b]

XorBytes(s, t) == [i \in 1..Len(s) |-> Xor(s[i], t[i])]

(***************************************************************************)
(* Base64.                                                                 *)
(***************************************************************************)
\* Buffer#toString('base64'), and the encoding btoa applies to Latin-1 text.
RECURSIVE Base64Encode(_)
Base64Encode(bytes) ==
  LET n == Len(bytes)
      ch(v) == Base64Chars[v + 1]
  IN IF n = 0 THEN << >>
     ELSE IF n = 1
       THEN << ch(bytes[1] \div 4), ch((bytes[1] % 4) * 16),
               EqualsSign, EqualsSign >>
     ELSE IF n = 2
       THEN << ch(bytes[1] \div 4),
               ch((bytes[1] % 4) * 16 + bytes[2] \div 16),
               ch((bytes[2] % 16) * 4), EqualsSign >>
     ELSE << ch(bytes[1] \div 4),
             ch((bytes[1] % 4) * 16 + bytes[2] \div 16),
             ch((bytes[2] % 16) * 4 + bytes[3] \div 64),
             ch(bytes[3] % 64) >> \o Base64Encode(Drop(bytes, 3))

\* btoa(string): throws InvalidCharacterError on a code unit above 0xFF.
Btoa(str) ==
  IF \E i \in 1..Len(str) : str[i] > MaxLatin1
  THEN Throw("InvalidCharacterError")
  ELSE Ok(Base64Encode(str))

\* The six-bit value of each byte in the standard alphabet; 64 for a byte
\* that is not of the alphabet.
Base64Value ==
  [b \in 0..255 |->
     IF IsIn(Base64Chars, b) THEN IndexOf(Base64Chars, b) - 1 ELSE 64]

\* The six-bit value of a character for Buffer.from(s, 'base64'), which reads
\* both the standard and the URL-safe alphabet ('-' is 62, '_' is 63) and
\* looks only at the low byte of a code unit; 64 for any other character.
Unbase64(c) ==
  LET b == c % 256
  IN IF b = 45 THEN 62 ELSE IF b = 95 THEN 63 ELSE Base64Value[b]

\* The six-bit value of a character for atob, which reads the standard
\* alphabet only.
AtobValue(c) == IF c > MaxLatin1 THEN 64 ELSE Base64Value[c]

\* The bytes of a run of six-bit values; bits left over at the end are dropped.
RECURSIVE SextetsToBytes(_)
SextetsToBytes(v) ==
  LET n == Len(v)
  IN IF n < 2 THEN << >>
     ELSE IF n = 2 THEN << v[1] * 4 + v[2] \div 16 >>
     ELSE IF n = 3
       THEN << v[1] * 4 + v[2] \div 16, (v[2] % 16) * 16 + v[3] \div 4 >>
     ELSE << v[1] * 4 + v[2] \div 16, (v[2] % 16) * 16 + v[3] \div 4,
             (v[3] % 4) * 64 + v[4] >> \o SextetsToBytes(Drop(v, 4))

\* Buffer.from(string, 'base64'): never throws; skips every character that is
\* not of the alphabet and stops at the first '='.
BufferFromBase64(str) ==
  LET stop == IndexOf(str, EqualsSign)
      body == IF stop = 0 THEN str ELSE Take(str, stop - 1)
      legal == SelectSeq(body, LAMBDA c : Unbase64(c) < 64)
  IN SextetsToBytes([i \in 1..Len(legal) |-> Unbase64(legal[i])])

\* atob(string): the forgiving-base64 decode.  ASCII whitespace is removed,
\* one or two trailing '=' are removed when the length is a multiple of four,
\* then a length of 1 mod 4 or any character outside the standard alphabet
\* throws.  The result is a Latin-1 string.
Atob(str) ==
  LET s1 == SelectSeq(str, LAMBDA c : c \notin AsciiWhitespace)
      n1 == Len(s1)
      s2 == IF n1 > 0 /\ n1 % 4 = 0
            THEN IF n1 >= 2 /\ s1[n1] = EqualsSign /\ s1[n1 - 1] = EqualsSign
                 THEN Take(s1, n1 - 2)
                 ELSE IF s1[n1] = EqualsSign THEN Take(s1, n1 - 1) ELSE s1
            ELSE s1
  IN IF Len(s2) % 4 = 1 \/ \E i \in 1..Len(s2) : AtobValue(s2[i]) = 64
     THEN Throw("InvalidCharacterError")
     ELSE Ok(SextetsToBytes([i \in 1..Len(s2) |-> AtobValue(s2[i])]))

(***************************************************************************)
(* Hex.                                                                    *)
(***************************************************************************)
\* Buffer#toString('hex')
HexEncode(bytes) ==
  [i \in 1..(2 * Len(bytes)) |->
     IF i % 2 = 1 THEN HexChars[bytes[(i + 1) \div 2] \div 16 + 1]
     ELSE HexChars[(bytes[i \div 2] % 16) + 1]]

\* The value of a hex digit ('A'..'F' read as 'a'..'f'); 16 for anything else.
Unhex(c) ==
  LET lc == IF c >= 65 /\ c <= 70 THEN c + 32 ELSE c
  IN IF IsIn(HexChars, lc) THEN IndexOf(HexChars, lc) - 1 ELSE 16

\* Buffer.from(string, 'hex'): never throws; decodes pairs of digits and stops
\* at the first pair that is not two hex digits (or at a lone last character).
RECURSIVE BufferFromHex(_)
BufferFromHex(str) ==
  IF Len(str) < 2 \/ Unhex(str[1]) = 16 \/ Unhex(str[2]) = 16 THEN << >>
  ELSE << Unhex(str[1]) * 16 + Unhex(str[2]) >> \o BufferFromHex(Drop(str, 2))

(***************************************************************************)
(* UTF-8.                                                                  *)
(***************************************************************************)
\* Buffer.from(string): the UTF-8 bytes of a string of code units (a lone
\* surrogate is written as U+FFFD; no payload of the model holds a pair).
RECURSIVE Utf8Encode(_)
Utf8Encode(str) ==
  IF Len(str) = 0 THEN << >>
  ELSE LET c == str[1]
           u == IF c >= 55296 /\ c <= 57343 THEN ReplacementChar ELSE c
           head == IF u < 128 THEN << u >>
                   ELSE IF u < 2048
                     THEN << 192 + u \div 64, 128 + (u % 64) >>
                   ELSE << 224 + u \div 4096, 128 + ((u \div 64) % 64),
                           128 + (u % 64) >>
       IN head \o Utf8Encode(Drop(str, 1))

IsContinuation(b, lo, hi) == b >= lo /\ b <= hi

\* How many bytes follow the lead byte b of a well-formed sequence, or 0
\* when b starts none, and the range its first continuation byte must be in.
Utf8Needed(b) ==
  IF b >= 194 /\ b <= 223 THEN 1
  ELSE IF b >= 224 /\ b <= 239 THEN 2
  ELSE IF b >= 240 /\ b <= 244 THEN 3
  ELSE 0
Utf8Lower(b) == IF b = 224 THEN 160 ELSE IF b = 240 THEN 144 ELSE 128
Utf8Upper(b) == IF b = 237 THEN 159 ELSE IF b = 244 THEN 143 ELSE 191

\* Buffer#toString(): the UTF-8 decode.  An ill-formed sequence yields one
\* U+FFFD for its maximal well-formed prefix and decoding resumes after it.
RECURSIVE Utf8Decode(_)
Utf8Decode(bytes) ==
  IF Len(bytes) = 0 THEN << >>
  ELSE
    LET b == bytes[1]
        need == Utf8Needed(b)
        n == Len(bytes)
        good(k) == \* the first k continuation bytes are well formed
          /\ n >= 1 + k
          /\ \A j \in 1..k :
               IF j = 1
               THEN IsContinuation(bytes[2], Utf8Lower(b), Utf8Upper(b))
               ELSE IsContinuation(bytes[1 + j], 128, 191)
        prefix == IF good(need) THEN need
                  ELSE IF need >= 2 /\ good(need - 1) THEN need - 1
                  ELSE IF need >= 3 /\ good(need - 2) THEN need - 2
                  ELSE 0
        cp == IF need = 1 THEN (b - 192) * 64 + (bytes[2] - 128)
              ELSE IF need = 2
                THEN (b - 224) * 4096 + (bytes[2] - 128) * 64
                     + (bytes[3] - 128)
              ELSE (b - 240) * 262144 + (bytes[2] - 128) * 4096
                   + (bytes[3] - 128) * 64 + (bytes[4] - 128)
    IN IF b < 128 THEN << b >> \o Utf8Decode(Drop(bytes, 1))
       ELSE IF need > 0 /\ good(need)
         THEN (IF cp > 65535
               THEN << 55296 + (cp - 65536) \div 1024,
                       56320 + ((cp - 65536) % 1024) >>
               ELSE << cp >>) \o Utf8Decode(Drop(bytes, 1 + need))
       ELSE << ReplacementChar >> \o Utf8Decode(Drop(bytes, 1 + prefix))

(***************************************************************************)
(* JSON.  A request body that express.json() has parsed is an object; the  *)
(* payloads of the model are the objects whose members are strings, held   *)
(* as the sequence of their <<key, value>> pairs.                          *)
(***************************************************************************)
LeftBrace == 123
RightBrace == 125
Colon == 58
Comma == 44

NameKey == << 110, 97, 109, 101 >>   \* "name"

\* A string literal: '"' and '\' are escaped, every other code unit of the
\* model's alphabet is written as it is.
RECURSIVE JsonQuoteBody(_)
JsonQuoteBody(str) ==
  IF Len(str) = 0 THEN << >>
  ELSE (IF str[1] = DoubleQuote \/ str[1] = Backslash
        THEN << Backslash, str[1] >> ELSE << str[1] >>)
       \o JsonQuoteBody(Drop(str, 1))
JsonQuote(str) == << DoubleQuote >> \o JsonQuoteBody(str) \o << DoubleQuote >>

RECURSIVE JsonMembers(_)
JsonMembers(obj) ==
  IF Len(obj) = 0 THEN << >>
  ELSE JsonQuote(obj[1][1]) \o << Colon >> \o JsonQuote(obj[1][2])
       \o (IF Len(obj) > 1 THEN << Comma >> ELSE << >>)
       \o JsonMembers(Drop(obj, 1))

\* JSON.stringify(object)
JsonStringify(obj) == << LeftBrace >> \o JsonMembers(obj) \o << RightBrace >>

\* A string literal starting at text[i]: [ok, val, next], next the index
\* after the closing quote.  A raw control character, an escape other than
\* \" and \\ or a missing closing quote is a SyntaxError.
RECURSIVE JsonScanString(_, _, _)
JsonScanString(text, i, acc) ==
  IF i > Len(text) THEN [ok |-> FALSE, val |-> acc, next |-> i]
  ELSE IF text[i] = DoubleQuote THEN [ok |-> TRUE, val |-> acc, next |-> i + 1]
  ELSE IF text[i] < 32 THEN [ok |-> FALSE, val |-> acc, next |-> i]
  ELSE IF text[i] = Backslash
    THEN IF i + 1 <= Len(text)
            /\ (text[i + 1] = DoubleQuote \/ text[i + 1] = Backslash)
         THEN JsonScanString(text, i + 2, Append(acc, text[i + 1]))
         ELSE [ok |-> FALSE, val |-> acc, next |-> i]
  ELSE JsonScanString(text, i + 1, Append(acc, text[i]))

JsonString(text, i) ==
  IF i <= Len(text) /\ text[i] = DoubleQuote
  THEN JsonScanString(text, i + 1, << >>)
  ELSE [ok |-> FALSE, val |-> << >>, next |-> i]

\* The members from text[i] on, up to and including the closing brace.
RECURSIVE JsonScanMembers(_, _, _)
JsonScanMembers(text, i, acc) ==
  LET k == JsonString(text, i)
      v == JsonString(text, k.next + 1)
  IN IF ~k.ok \/ k.next > Len(text) \/ text[k.next] # Colon \/ ~v.ok
        \/ v.next > Len(text)
     THEN Throw("SyntaxError")
     ELSE IF text[v.next] = RightBrace
       THEN IF v.next = Len(text)
            THEN Ok(Append(acc, << k.val, v.val >>))
            ELSE Throw("SyntaxError")
     ELSE IF text[v.next] = Comma
       THEN JsonScanMembers(text, v.next + 1, Append(acc, << k.val, v.val >>))
     ELSE Throw("SyntaxError")

\* JSON.parse(text), for the texts of the model: an object of string members
\* written without white space, or a SyntaxError.
JsonParse(text) ==
  IF Len(text) < 2 \/ text[1] # LeftBrace THEN Throw("SyntaxError")
  ELSE IF text[2] = RightBrace
    THEN IF Len(text) = 2 THEN Ok(<< >>) ELSE Throw("SyntaxError")
  ELSE JsonScanMembers(text, 2, << >>)

(***************************************************************************)
(* HMAC-SHA256 under Config.SECRET_SIGNATURE_KEY.                          *)
(***************************************************************************)
DigestLen == 32
SignatureKey == << 115, 105, 103, 75, 101, 121 >>

\* crypto.createHmac('sha256', key).update(data).digest(): a keyed digest of
\* DigestLen bytes.  SHA-256 is modelled by a digest that is collision-free
\* on every message shorter than DigestLen bytes (the length in its first
\* byte, message byte j folded into byte 1 + ((j - 1) % (DigestLen - 1)) + 1
\* of the digest), which is every message the model signs or verifies.
RECURSIVE FoldAt(_, _, _)
FoldAt(data, j, step) ==
  IF j > Len(data) THEN 0 ELSE data[j] + FoldAt(data, j + step, step)
HmacSha256(key, data) ==
  [i \in 1..DigestLen |->
     IF i = 1 THEN (Len(data) + key[1]) % 256
     ELSE (FoldAt(data, i - 1, DigestLen - 1)
           + key[((i - 1) % Len(key)) + 1] + i) % 256]

\* hmac.digest('base64')
Sign(data) == Base64Encode(HmacSha256(SignatureKey, data))

(***************************************************************************)
(* AES-256-CBC under Config.SECRET_ENCRYPTION_KEY.                         *)
(***************************************************************************)
BlockSize == 16
IvLen == 16

\* PKCS#7 padding, as cipher.final() adds it: 1..BlockSize bytes, each the
\* number of bytes added.
Pad(bytes) ==
  LET n == BlockSize - (Len(bytes) % BlockSize)
  IN bytes \o Repeat(n, n)

\* The padding check of decipher.final(): the last byte n is in 1..BlockSize
\* and the last n bytes are all n; anything else is "bad decrypt".
Unpad(bytes) ==
  LET len == Len(bytes)
      n == IF len = 0 THEN 0 ELSE bytes[len]
  IN IF len = 0 \/ n < 1 \/ n > BlockSize \/ n > len
        \/ \E i \in (len - n + 1)..len : bytes[i] # n
     THEN Throw("bad decrypt")
     ELSE Ok(Take(bytes, len - n))

Block(bytes, k) == SubSeq(bytes, (k - 1) * BlockSize + 1, k * BlockSize)
NumBlocks(bytes) == Len(bytes) \div BlockSize

(***************************************************************************)
(* State.                                                                  *)
(*   aes     the part of the AES-256 permutation under the encryption key  *)
(*           that the run has determined so far: a set of                  *)
(*           <<input block, output block>> pairs.  The key is fixed at     *)
(*           start-up and unknown, so the permutation is fixed and unknown *)
(*           and is revealed one block at a time.                          *)
(*   issued  the {token, context} responses of /token/encode, each with    *)
(*           the payload it was given (what the callers hold).             *)
(*   req     the body of the /token/decode request in flight, if any.      *)
(*   resp    the response of the handler that ran last.                    *)
(*   crafted whether a caller has sent a ciphertext that encode did not    *)
(*           produce.  A run holds at most one such request: each fixes    *)
(*           more of the permutation, and the handlers treat every request *)
(*           alone.                                                        *)
(***************************************************************************)
VARIABLES aes, issued, req, resp, crafted, calls, hmacs, users, answer,
          attendance, attendees, now, posts, reply
vars == << aes, issued, req, resp, crafted, calls, hmacs, users, answer,
          attendance, attendees, now, posts, reply >>

\* What the requests to /token/encode and /token/decode taken one at a
\* time leave alone: the calls in flight and the user routes.
outsideToken ==
  << calls, hmacs, users, answer, attendance, attendees, now, posts, reply >>

SuccessOK == 200
ClientErrorBadRequest == 400

Known(table, x) == \E p \in table : p[1] = x
Produced(table, c) == \E p \in table : p[2] = c
AesOf(table, x) == (CHOOSE p \in table : p[1] = x)[2]
AesInverseOf(table, c) == (CHOOSE p \in table : p[2] = c)[1]

\* The k-th of a fixed run of distinct blocks.
CipherBlock(k) == [i \in 1..BlockSize |-> (k * 37 + i * 11) % 256]

\* The output for an input block seen for the first time.  Which block an
\* unknown key maps it to is immaterial to the handlers as long as the map
\* stays one-to-one: the first block of the run not yet an output.
FreshBlock(table) ==
  CipherBlock(CHOOSE k \in 0..Cardinality(table) :
                /\ ~Produced(table, CipherBlock(k))
                /\ \A j \in 0..(k - 1) : Produced(table, CipherBlock(j)))

\* cipher.update(...) and cipher.final(): CBC over the padded plaintext.
\* Yields the ciphertext and the permutation as far as it is now determined.
RECURSIVE EcbEncrypt(_, _, _)
EcbEncrypt(table, prev, padded) ==
  IF Len(padded) = 0 THEN [table |-> table, ct |-> << >>]
  ELSE LET x == Take(padded, BlockSize)
           c == IF Known(table, x) THEN AesOf(table, x) ELSE FreshBlock(table)
           rest == EcbEncrypt(table \cup {<< x, c >>}, c,
                              Drop(padded, BlockSize))
       IN [table |-> rest.table, ct |-> c \o rest.ct]
RECURSIVE CbcEncrypt(_, _, _)
CbcEncrypt(table, prev, padded) ==
  IF Len(padded) = 0 THEN [table |-> table, ct |-> << >>]
  ELSE LET x == XorBytes(Take(padded, BlockSize), prev)
           c == IF Known(table, x) THEN AesOf(table, x) ELSE FreshBlock(table)
           rest == CbcEncrypt(table \cup {<< x, c >>}, c,
                              Drop(padded, BlockSize))
       IN [table |-> rest.table, ct |-> c \o rest.ct]

\* Every block of the ciphertext is an output the run has determined.
AllProduced(table, ct) ==
  \A k \in 1..NumBlocks(ct) : Produced(table, Block(ct, k))

\* decipher.update(...): CBC over whole blocks, without the padding check.
CbcDecrypt(table, iv, ct) ==
  LET blk(k) == XorBytes(AesInverseOf(table, Block(ct, k)),
                         IF k = 1 THEN iv ELSE Block(ct, k - 1))
      RECURSIVE upto(_)
      upto(k) == IF k = 0 THEN << >> ELSE upto(k - 1) \o blk(k)
  IN upto(NumBlocks(ct))

\* crypto.createDecipheriv('aes-256-cbc', key, iv), update and final: throws
\* on an IV that is not IvLen bytes, on a ciphertext that is empty or not a
\* whole number of blocks, and on bad padding.
DecipherNoFinal(table, iv, ct) ==
  IF Len(iv) # IvLen THEN Throw("Invalid initialization vector")
  ELSE Ok(CbcDecrypt(table, iv, ct))
Decipher(table, iv, ct) ==
  IF Len(iv) # IvLen THEN Throw("Invalid initialization vector")
  ELSE IF Len(ct) = 0 \/ Len(ct) % BlockSize # 0
    THEN Throw("wrong final block length")
  ELSE Unpad(CbcDecrypt(table, iv, ct))

(***************************************************************************)
(* Values of a request body's fields, as express.json() leaves them.       *)
(***************************************************************************)
Undefined == [type |-> "undefined", val |-> << >>]
Str(s) == [type |-> "string", val |-> s]
Num(n) == [type |-> "number", val |-> << n >>]
Bool(b) == [type |-> "boolean", val |-> IF b THEN << 1 >> ELSE << 0 >>]
Arr(a) == [type |-> "array", val |-> a]

\* !v is false
Truthy(v) ==
  CASE v.type = "undefined" -> FALSE
    [] v.type = "string" -> Len(v.val) > 0
    [] v.type = "number" -> v.val[1] # 0
    [] v.type = "boolean" -> v.val[1] = 1
    [] OTHER -> TRUE

\* Buffer.from(v, encoding): a string is decoded, an array of numbers gives
\* its bytes, a number or a boolean is a TypeError.
BufferFrom(v, encoding) ==
  CASE v.type = "string" ->
         Ok(IF encoding = "base64" THEN BufferFromBase64(v.val)
            ELSE BufferFromHex(v.val))
    [] v.type = "array" -> Ok([i \in 1..Len(v.val) |-> v.val[i] % 256])
    [] OTHER -> Throw("TypeError")

\* string.split('.'): the pieces between the dots.
RECURSIVE SplitOnDot(_)
SplitOnDot(str) ==
  LET i == IndexOf(str, Dot)
  IN IF i = 0 THEN << str >>
     ELSE << Take(str, i - 1) >> \o SplitOnDot(Drop(str, i))

(***************************************************************************)
(* Responses.  trace lists the steps the handler took, in order.           *)
(***************************************************************************)
NoPayload == << >>
NoString == << >>

SendPayload(payload, trace) ==
  [status |-> SuccessOK, error |-> "", payload |-> payload,
   token |-> NoString, context |-> NoString, trace |-> trace]
SendToken(token, context, trace) ==
  [status |-> SuccessOK, error |-> "", payload |-> NoPayload,
   token |-> token, context |-> context, trace |-> trace]
\* next(new RouterError(status, message))
RouterError(status, message, trace) ==
  [status |-> status, error |-> message, payload |-> NoPayload,
   token |-> NoString, context |-> NoString, trace |-> trace]
\* An exception that leaves a handler: no response of the handler's own.
Unhandled(name, trace) ==
  [status |-> 500, error |-> name, payload |-> NoPayload,
   token |-> NoString, context |-> NoString, trace |-> trace]
NoResponse ==
  [status |-> 0, error |-> "", payload |-> NoPayload,
   token |-> NoString, context |-> NoString, trace |-> << >>]

(***************************************************************************)
(* POST /token/encode                                                      *)
(***************************************************************************)
\* The signature encode attaches: the HMAC of the bytes the base64 text
\* decodes to (not of the text), itself in base64.
EncodeSignature(encoded) == Sign(BufferFromBase64(encoded))

\* The handler: the response and the permutation as far as determined.
\* There is no try around it: an exception leaves the handler.
EncodeHandler(table, body, iv) ==
  LET encoded == Btoa(JsonStringify(body))
  IN IF ~encoded.ok
     THEN [table |-> table, res |-> Unhandled(encoded.val, << "stringify" >>)]
     ELSE
       LET signature == EncodeSignature(encoded.val)
           token == encoded.val \o << Dot >> \o signature
           enc == CbcEncrypt(table, iv, Pad(Utf8Encode(token)))
       IN [table |-> enc.table,
           res |-> SendToken(Base64Encode(enc.ct), HexEncode(iv),
                             << "stringify", "hmac", "iv", "cipher" >>)]

(***************************************************************************)
(* POST /token/decode                                                      *)
(***************************************************************************)
\* !req.body.token || !req.body.context
ParamsMissingTokenOnly(body) == ~Truthy(body.token)
ParamsMissing(body) == ~Truthy(body.token) \/ ~Truthy(body.context)

\* catch(error): every exception of the try block becomes InvalidParams.
CaughtNamed(error, trace) ==
  RouterError(ClientErrorBadRequest, error, trace)
CaughtUnauthorized(error, trace) ==
  RouterError(ClientErrorBadRequest, "Unauthorized", trace)
CaughtRethrown(error, trace) == Unhandled(error, trace)
Caught(error, trace) ==
  RouterError(ClientErrorBadRequest, "InvalidParams", trace)

\* The signature decode recomputes from the encoded part.
DecodeSignatureOverText(encoded) == Sign(Utf8Encode(encoded))
DecodeSignature(encoded) == Sign(BufferFromBase64(encoded))

\* signature != calculatedSignature, signature being token[1] of the split:
\* undefined when the plaintext holds no '.'.
SignatureMismatchWhenPresent(token, calculatedSignature) ==
  Len(token) >= 2 /\ token[2] # calculatedSignature
SignatureMismatch(token, calculatedSignature) ==
  Len(token) < 2 \/ token[2] # calculatedSignature

\* JSON.parse(atob(encoded))
ParsePayload(encoded) ==
  LET text == Atob(encoded)
  IN IF ~text.ok THEN text ELSE JsonParse(text.val)

\* The try block from the split on: the encoded part is checked, then the
\* signature, and only then is the payload parsed.
AfterDecryptNoEmptyCheck(plain, trace) ==
  LET token == SplitOnDot(Utf8Decode(plain))
      encoded == token[1]
      decoded == ParsePayload(encoded)
  IN IF SignatureMismatch(token, DecodeSignature(encoded))
     THEN RouterError(ClientErrorBadRequest, "Unauthorized",
                      trace \o << "split", "hmac", "compare" >>)
     ELSE IF ~decoded.ok
       THEN Caught(decoded.val,
                   trace \o << "split", "hmac", "compare", "parse" >>)
     ELSE SendPayload(decoded.val,
                      trace \o << "split", "hmac", "compare", "parse",
                                  "send" >>)
AfterDecryptParseFirst(plain, trace) ==
  LET token == SplitOnDot(Utf8Decode(plain))
      encoded == token[1]
      decoded == ParsePayload(encoded)
  IN IF Len(encoded) = 0
     THEN RouterError(ClientErrorBadRequest, "InvalidParams",
                      trace \o << "split" >>)
     ELSE IF ~decoded.ok
       THEN Caught(decoded.val, trace \o << "split", "parse" >>)
     ELSE IF SignatureMismatch(token, DecodeSignature(encoded))
       THEN RouterError(ClientErrorBadRequest, "Unauthorized",
                        trace \o << "split", "parse", "hmac", "compare" >>)
     ELSE SendPayload(decoded.val,
                      trace \o << "split", "parse", "hmac", "compare",
                                  "send" >>)
AfterDecrypt(plain, trace) ==
  LET token == SplitOnDot(Utf8Decode(plain))
      encoded == token[1]
      decoded == ParsePayload(encoded)
  IN IF Len(encoded) = 0
     THEN RouterError(ClientErrorBadRequest, "InvalidParams",
                      trace \o << "split" >>)
     ELSE IF SignatureMismatch(token, DecodeSignature(encoded))
       THEN RouterError(ClientErrorBadRequest, "Unauthorized",
                        trace \o << "split", "hmac", "compare" >>)
     ELSE IF ~decoded.ok
       THEN Caught(decoded.val,
                   trace \o << "split", "hmac", "compare", "parse" >>)
     ELSE SendPayload(decoded.val,
                      trace \o << "split", "hmac", "compare", "parse",
                                  "send" >>)

DecodeHandlerLateCheck(table, body) ==
  LET encrypted == BufferFrom(body.token, "base64")
      iv == BufferFrom(body.context, "hex")
      decrypted == Decipher(table, iv.val, encrypted.val)
  IN IF ~encrypted.ok THEN Caught(encrypted.val, << "base64" >>)
     ELSE IF ~iv.ok THEN Caught(iv.val, << "base64", "hex" >>)
     ELSE IF ~decrypted.ok
       THEN Caught(decrypted.val, << "base64", "hex", "decipher" >>)
     ELSE IF ParamsMissing(body)
       THEN RouterError(ClientErrorBadRequest, "MissingParams",
                        << "base64", "hex", "decipher", "check" >>)
     ELSE AfterDecrypt(decrypted.val,
                       << "base64", "hex", "decipher", "check" >>)
DecodeHandler(table, body) ==
  IF ParamsMissing(body)
  THEN RouterError(ClientErrorBadRequest, "MissingParams", << "check" >>)
  ELSE
    LET encrypted == BufferFrom(body.token, "base64")
        iv == BufferFrom(body.context, "hex")
        decrypted == Decipher(table, iv.val, encrypted.val)
    IN IF ~encrypted.ok THEN Caught(encrypted.val, << "check", "base64" >>)
       ELSE IF ~iv.ok THEN Caught(iv.val, << "check", "base64", "hex" >>)
       ELSE IF ~decrypted.ok
         THEN Caught(decrypted.val,
                     << "check", "base64", "hex", "decipher" >>)
       ELSE AfterDecrypt(decrypted.val,
                         << "check", "base64", "hex", "decipher" >>)

(***************************************************************************)
(* The requests of the model.                                              *)
(***************************************************************************)
MaxIssued == 2

\* The names of the model's payloads: "", "a", "a\"" (escaped by
\* JSON.stringify), e-acute (Latin-1) and the euro sign (above 0xFF).
Names == { << >>, << 97 >>, << 97, 34 >>, << 233 >>, << 8364 >> }

\* { } and { name: <string> }, the shape the tests send.
Payloads == {<< >>} \cup {<< << NameKey, n >> >> : n \in Names}

\* crypto.randomBytes(16) may return any 16 bytes; these are the values the
\* model draws from.
IvZero == Repeat(0, IvLen)
IvChoices == { IvZero, [IvZero EXCEPT ![3] = 1] }

\* Handler invocations that can be in flight at once, and the hmac object
\* each one holds.
MaxCalls == 2
Calls == 1..MaxCalls
IdleCall ==
  [pc |-> "idle", op |-> "none", body |-> << >>, token |-> << >>,
   trace |-> << >>]
NoHmac == [created |-> FALSE, data |-> << >>]

\* The user ids of the user routes' database, and no answer yet.
MaxPosts == 2
MaxTime == 2

\* The events with metadata, and the second at which each expires.
EventExp == [event1 |-> 1]

IdlePost == [pc |-> "idle", userId |-> "", roles |-> {}, eventId |-> ""]

UserIds == {"tester", "other-user", "user3"}
NoAnswer == [route |-> "none"]

NoRequest == << >>
Request(token, context, kind, tok, ctx) ==
  << [token |-> token, context |-> context,
      note |-> [kind |-> kind, tok |-> tok, ctx |-> ctx]] >>

Init ==
  /\ aes = {}
  /\ issued = << >>
  /\ req = NoRequest
  /\ resp = [op |-> "none", res |-> NoResponse]
  /\ crafted = FALSE
  /\ calls = [c \in Calls |-> IdleCall]
  /\ hmacs = [c \in Calls |-> NoHmac]
  /\ users = UserIds
  /\ answer = NoAnswer
  /\ attendance = [u \in UserIds |-> << >>]
  /\ attendees = [e \in DOMAIN EventExp |-> << >>]
  /\ now = 0
  /\ posts = [c \in 1..MaxPosts |-> IdlePost]
  /\ reply = [status |-> 0, error |-> "", repeat |-> FALSE]

\* POST /token/encode with body `body`; crypto.randomBytes returns `iv`.
Encode(body, iv) ==
  /\ req = NoRequest
  /\ Len(issued) < MaxIssued
  /\ LET r == EncodeHandler(aes, body, iv)
     IN /\ aes' = r.table
        /\ resp' = [op |-> "encode", res |-> r.res, body |-> body]
        /\ issued' = IF r.res.status = SuccessOK
                     THEN Append(issued, [payload |-> body,
                                          token |-> r.res.token,
                                          context |-> r.res.context])
                     ELSE issued
  /\ UNCHANGED << req, crafted >>
  /\ UNCHANGED outsideToken

\* A caller sends back the pair encode gave it.
SendIssued(i) ==
  /\ req = NoRequest
  /\ i \in 1..Len(issued)
  /\ req' = Request(Str(issued[i].token), Str(issued[i].context),
                    "issued", i, i)
  /\ resp' = [op |-> "none", res |-> NoResponse]
  /\ UNCHANGED << aes, issued, crafted >>
  /\ UNCHANGED outsideToken

\* A caller sends the token of one encode call with the context of another.
SendMixed(i, j) ==
  /\ req = NoRequest
  /\ i \in 1..Len(issued) /\ j \in 1..Len(issued) /\ i # j
  /\ req' = Request(Str(issued[i].token), Str(issued[j].context),
                    "mixed", i, j)
  /\ resp' = [op |-> "none", res |-> NoResponse]
  /\ UNCHANGED << aes, issued, crafted >>
  /\ UNCHANGED outsideToken

\* The request's ciphertext, when it has whole blocks, is made of blocks
\* whose decryption the run has determined.
Decodable(table, body) ==
  LET encrypted == BufferFrom(body.token, "base64")
  IN (encrypted.ok /\ Len(encrypted.val) % BlockSize = 0)
       => AllProduced(table, encrypted.val)

\* POST /token/decode with the body in flight.
Decode ==
  /\ req # NoRequest
  /\ Decodable(aes, req[1])
  /\ resp' = [op |-> "decode", res |-> DecodeHandler(aes, req[1]),
              body |-> req[1]]
  /\ req' = NoRequest
  /\ UNCHANGED << aes, issued, crafted >>
  /\ UNCHANGED outsideToken

\* The model's changes to one byte: the lowest and the highest bit flipped.
TamperDeltas == {1, 128}

MaxKeep == 1
MaxGarblePad == 2
GarbleFiller == 65

\* What a ciphertext block that encode never produced decrypts to.  Under a
\* key the caller does not know it may be any block but the one the original
\* block held; the model draws from a block of 0xFF bytes and from the blocks
\* that keep the first p bytes of the original, then hold c, then a filler,
\* then q bytes of valid padding.
GarbleBlocks(orig) ==
  ( {Repeat(255, BlockSize)} \cup
    { Take(orig, p) \o << c >> \o Repeat(GarbleFiller, BlockSize - p - 1 - q)
        \o Repeat(q, q) :
        p \in 0..MaxKeep, c \in {Dot, GarbleFiller}, q \in 0..MaxGarblePad } )
  \ {orig}

\* A caller changes the byte at `pos` of the ciphertext of token i by `delta`
\* and sends it with the token's own context.  The changed block is new to
\* the cipher; g is what it decrypts to.
SendTampered(i, pos, delta) ==
  /\ req = NoRequest
  /\ ~crafted
  /\ i \in 1..Len(issued)
  /\ LET ct == BufferFromBase64(issued[i].token)
         iv == BufferFromHex(issued[i].context)
     IN /\ pos \in 1..Len(ct)
        /\ LET k == ((pos - 1) \div BlockSize) + 1
               changed == [ct EXCEPT ![pos] = Xor(@, delta)]
               prev == IF k = 1 THEN iv ELSE Block(ct, k - 1)
               orig == XorBytes(AesInverseOf(aes, Block(ct, k)), prev)
           IN /\ ~Produced(aes, Block(changed, k))
              /\ \E g \in GarbleBlocks(orig) :
                   /\ ~Known(aes, XorBytes(g, prev))
                   /\ aes' = aes \cup {<< XorBytes(g, prev), Block(changed, k) >>}
              /\ req' = Request(Str(Base64Encode(changed)),
                                Str(issued[i].context), "tampered", i, i)
  /\ resp' = [op |-> "none", res |-> NoResponse]
  /\ crafted' = TRUE
  /\ UNCHANGED issued
  /\ UNCHANGED outsideToken

\* 'xyz': bytes that are no JSON text.
NotJson == << 120, 121, 122 >>
\* 'junk'
Junk == << 106, 117, 110, 107 >>

SignedBlock(encoded) == encoded \o << Dot >> \o Sign(BufferFromBase64(encoded))

\* Plaintexts a holder of the keys can encrypt into a request (the tests
\* carry such a precomputed token): signed blocks that are well formed but
\* for the signature, the payload, the delimiter or the encoding.
ForgedPlaintexts ==
  LET encoded == Btoa(JsonStringify(<< << NameKey, << 97 >> >> >>)).val
      empty == Btoa(JsonStringify(<< >>)).val
      other == Sign(<< 1, 2, 3 >>)
  IN { encoded \o << Dot >> \o other,
       encoded \o << Dot >> \o Sign(Utf8Encode(encoded)),
       Base64Encode(NotJson) \o << Dot >> \o other,
       SignedBlock(Base64Encode(NotJson)),
       encoded,
       encoded \o << Dot >>,
       << Dot >> \o other,
       << >>,
       SignedBlock(encoded),
       SignedBlock(encoded) \o << Dot >> \o Junk,
       SignedBlock([empty EXCEPT ![3] = 49]),
       SignedBlock([empty EXCEPT ![4] = 45]),
       SignedBlock(Take(empty, 3)) }

\* The same, padded as cipher.final() pads, and whole blocks whose end is
\* no valid padding.
ForgedBlocks ==
  { Pad(Utf8Encode(plain)) : plain \in ForgedPlaintexts }
  \cup { Repeat(GarbleFiller, BlockSize),
         Repeat(GarbleFiller, BlockSize - 1) \o << 0 >>,
         Repeat(GarbleFiller, BlockSize - 1) \o << BlockSize + 1 >>,
         Repeat(GarbleFiller, BlockSize - 2) \o << 3, 2 >> }

\* A caller sends the encryption of blocks encode would not produce.
SendForged(blocks, iv) ==
  /\ req = NoRequest
  /\ ~crafted
  /\ LET enc == CbcEncrypt(aes, iv, blocks)
     IN /\ aes' = enc.table
        /\ req' = Request(Str(Base64Encode(enc.ct)), Str(HexEncode(iv)),
                          "forged", 0, 0)
  /\ resp' = [op |-> "none", res |-> NoResponse]
  /\ crafted' = TRUE
  /\ UNCHANGED issued
  /\ UNCHANGED outsideToken

\* 'meh', 'asdf', 'potato': the strings of the tests.
Meh == << 109, 101, 104 >>
Asdf == << 97, 115, 100, 102 >>
Potato == << 112, 111, 116, 97, 116, 111 >>

\* Bodies with a field missing, empty, of another type, or not the encoding
\* of a ciphertext and an IV.
MalformedBodies ==
  LET ivHex == Str(HexEncode(IvZero))
  IN { << Undefined, Undefined >>,
       << Str(Meh), Undefined >>,
       << Undefined, Str(Meh) >>,
       << Str(NoString), ivHex >>,
       << Str(Asdf), Str(NoString) >>,
       << Num(0), ivHex >>,
       << Bool(FALSE), ivHex >>,
       << Str(Asdf), Str(Potato) >>,
       << Str(Asdf), ivHex >>,
       << Num(5), ivHex >>,
       << Str(Asdf), Bool(TRUE) >>,
       << Arr(<< >>), ivHex >>,
       << Arr(<< 1, 2, 3 >>), Arr(IvZero) >> }

SendMalformed(body) ==
  /\ req = NoRequest
  /\ req' = Request(body[1], body[2], "malformed", 0, 0)
  /\ resp' = [op |-> "none", res |-> NoResponse]
  /\ UNCHANGED << aes, issued, crafted >>
  /\ UNCHANGED outsideToken

\* A caller sends the token encode gave it with a context that is not the
\* encoding of an IV of IvLen bytes.
SendShortContext(i) ==
  /\ req = NoRequest
  /\ i \in 1..Len(issued)
  /\ req' = Request(Str(issued[i].token), Str(Take(issued[i].context, 8)),
                    "malformed", i, 0)
  /\ resp' = [op |-> "none", res |-> NoResponse]
  /\ UNCHANGED << aes, issued, crafted >>
  /\ UNCHANGED outsideToken

Next ==
  \/ \E body \in Payloads, iv \in IvChoices : Encode(body, iv)
  \/ \E i \in 1..MaxIssued : SendIssued(i)
  \/ \E i, j \in 1..MaxIssued : SendMixed(i, j)
  \/ Decode

Spec == Init /\ [][Next]_vars

(***************************************************************************)
(* Runs with one token and one changed byte.                               *)
(***************************************************************************)
TamperPayloads == { << >>, << << NameKey, << 97 >> >> >> }
MaxCiphertext == 5 * BlockSize

NextTamper ==
  \/ \E body \in TamperPayloads :
       Len(issued) = 0 /\ Encode(body, IvZero)
  \/ SendIssued(1)
  \/ \E pos \in 1..MaxCiphertext, delta \in TamperDeltas :
       SendTampered(1, pos, delta)
  \/ Decode

SpecTamper == Init /\ [][NextTamper]_vars

(***************************************************************************)
(* Runs with arbitrary request bodies.                                     *)
(***************************************************************************)
NextInput ==
  \/ \E body \in Payloads :
       Len(issued) = 0 /\ Encode(body, IvZero)
  \/ SendIssued(1)
  \/ SendShortContext(1)
  \/ \E blocks \in ForgedBlocks, iv \in IvChoices : SendForged(blocks, iv)
  \/ \E body \in MalformedBodies : SendMalformed(body)
  \/ Decode

SpecInput == Init /\ [][NextInput]_vars

\* Every request of the model is one whose ciphertext the cipher can answer.
RequestsDecodable == req # NoRequest => Decodable(aes, req[1])

(***************************************************************************)
(* The handlers statement by statement, several invocations in flight.     *)
(* An invocation keeps its locals in its own record; the hmac object it    *)
(* feeds is the one its own createHmac call returned.                      *)
(***************************************************************************)
\* const hmac = crypto.createHmac(...) inside the handler: the object of
\* this invocation.
HmacObjectShared(c) == 1
HmacObject(c) == c

\* crypto.createHmac: a new object, nothing fed to it yet.
CreateHmacOnce(old) ==
  IF old.created THEN old ELSE [created |-> TRUE, data |-> << >>]
CreateHmac(old) == [created |-> TRUE, data |-> << >>]

InFlight(c) == calls[c].pc \in {"created", "updated"}

\* Invocations have no names: a new one takes the first free place.
Free(c) == ~InFlight(c) /\ \A d \in Calls : d < c => InFlight(d)

\* The encode invocations that have begun.
EncodesBegun ==
  Len(issued) + Cardinality({d \in Calls : InFlight(d)
                                           /\ calls[d].op = "encode"})

\* Another invocation is in flight while invocation c takes a step.
Overlapped(c) == \E d \in Calls : d # c /\ InFlight(d)

\* The answer of an invocation that ends, with what it was given: the
\* body, for encode the IV it drew and the permutation as far as it was
\* determined; whether another invocation was in flight when it ended, and
\* whether it repeats the request answered just before.
Answered(op, body, res, before, iv, overlapped) ==
  [op |-> op, res |-> res, body |-> body, before |-> before, iv |-> iv,
   overlapped |-> overlapped,
   again |-> resp.op = op /\ resp.body = body]

\* /token/encode up to createHmac.
BeginEncode(c, body) ==
  /\ Free(c)
  /\ EncodesBegun < MaxIssued
  /\ LET encoded == Btoa(JsonStringify(body))
     IN IF ~encoded.ok
        THEN /\ UNCHANGED calls
             /\ resp' = Answered("encode", body,
                                 Unhandled(encoded.val, << "stringify" >>),
                                 aes, << >>, Overlapped(c))
             /\ UNCHANGED hmacs
        ELSE /\ calls' = [calls EXCEPT ![c] =
                            [IdleCall EXCEPT !.pc = "created",
                                             !.op = "encode",
                                             !.body = body,
                                             !.token = << encoded.val >>,
                                             !.trace = << "stringify" >>]]
             /\ hmacs' = [hmacs EXCEPT ![HmacObject(c)] = CreateHmac(@)]
             /\ UNCHANGED resp
  /\ UNCHANGED << aes, issued, req, crafted, users, answer >>
  /\ UNCHANGED << attendance, attendees, now, posts, reply >>

\* /token/decode up to createHmac: the exits before it, or the pieces of
\* the decrypted block.
DecodeBegin(table, body) ==
  IF ParamsMissing(body)
  THEN [exit |-> TRUE,
        res |-> RouterError(ClientErrorBadRequest, "MissingParams",
                            << "check" >>)]
  ELSE
    LET encrypted == BufferFrom(body.token, "base64")
        iv == BufferFrom(body.context, "hex")
        decrypted == Decipher(table, iv.val, encrypted.val)
        token == SplitOnDot(Utf8Decode(decrypted.val))
        done == << "check", "base64", "hex", "decipher" >>
    IN IF ~encrypted.ok
       THEN [exit |-> TRUE,
             res |-> Caught(encrypted.val, << "check", "base64" >>)]
       ELSE IF ~iv.ok
         THEN [exit |-> TRUE,
               res |-> Caught(iv.val, << "check", "base64", "hex" >>)]
       ELSE IF ~decrypted.ok
         THEN [exit |-> TRUE, res |-> Caught(decrypted.val, done)]
       ELSE IF Len(token[1]) = 0
         THEN [exit |-> TRUE,
               res |-> RouterError(ClientErrorBadRequest, "InvalidParams",
                                   done \o << "split" >>)]
       ELSE [exit |-> FALSE, token |-> token, trace |-> done \o << "split" >>]

BeginDecode(c, body) ==
  /\ Free(c)
  /\ Decodable(aes, body)
  /\ LET begun == DecodeBegin(aes, body)
     IN IF begun.exit
        THEN /\ UNCHANGED calls
             /\ resp' = Answered("decode", body, begun.res, aes, << >>,
                                 Overlapped(c))
             /\ UNCHANGED hmacs
        ELSE /\ calls' = [calls EXCEPT ![c] =
                            [IdleCall EXCEPT !.pc = "created",
                                             !.op = "decode",
                                             !.body = body,
                                             !.token = begun.token,
                                             !.trace = begun.trace]]
             /\ hmacs' = [hmacs EXCEPT ![HmacObject(c)] = CreateHmac(@)]
             /\ UNCHANGED resp
  /\ UNCHANGED << aes, issued, req, crafted, users, answer >>
  /\ UNCHANGED << attendance, attendees, now, posts, reply >>

\* hmac.update(Buffer.from(encoded, 'base64')): the object is fed the bytes.
UpdateHmac(c) ==
  /\ calls[c].pc = "created"
  /\ hmacs' = [hmacs EXCEPT ![HmacObject(c)].data =
                 @ \o BufferFromBase64(calls[c].token[1])]
  /\ calls' = [calls EXCEPT ![c].pc = "updated",
                                 ![c].trace = @ \o << "hmac" >>]
  /\ UNCHANGED << aes, issued, req, resp, crafted, users, answer >>
  /\ UNCHANGED << attendance, attendees, now, posts, reply >>

\* hmac.digest('base64') of what the object was fed.
Digest(c) ==
  Base64Encode(HmacSha256(SignatureKey, hmacs[HmacObject(c)].data))

\* /token/encode from the digest on; crypto.randomBytes returns `iv`.
FinishEncode(c, iv) ==
  /\ calls[c].pc = "updated"
  /\ calls[c].op = "encode"
  /\ LET token == calls[c].token[1] \o << Dot >> \o Digest(c)
         enc == CbcEncrypt(aes, iv, Pad(Utf8Encode(token)))
         res == SendToken(Base64Encode(enc.ct), HexEncode(iv),
                          << "stringify", "hmac", "iv", "cipher" >>)
     IN /\ aes' = enc.table
        /\ issued' = Append(issued, [payload |-> calls[c].body,
                                     token |-> res.token,
                                     context |-> res.context])
        /\ resp' = Answered("encode", calls[c].body, res, aes, iv,
                            Overlapped(c))
  /\ calls' = [calls EXCEPT ![c] = IdleCall]
  /\ UNCHANGED << hmacs, req, crafted, users, answer >>
  /\ UNCHANGED << attendance, attendees, now, posts, reply >>

\* /token/decode from the digest on.
FinishDecode(c) ==
  /\ calls[c].pc = "updated"
  /\ calls[c].op = "decode"
  /\ LET token == calls[c].token
         decoded == ParsePayload(token[1])
         done == calls[c].trace \o << "compare" >>
         res == IF SignatureMismatch(token, Digest(c))
                THEN RouterError(ClientErrorBadRequest, "Unauthorized", done)
                ELSE IF ~decoded.ok
                  THEN Caught(decoded.val, done \o << "parse" >>)
                ELSE SendPayload(decoded.val, done \o << "parse", "send" >>)
     IN resp' = Answered("decode", calls[c].body, res, aes, << >>,
                         Overlapped(c))
  /\ calls' = [calls EXCEPT ![c] = IdleCall]
  /\ UNCHANGED << aes, issued, hmacs, req, crafted, users, answer >>
  /\ UNCHANGED << attendance, attendees, now, posts, reply >>

\* The bodies sent to decode: the pairs encode has returned, and a body
\* without context.
CallBodies ==
  { [token |-> Str(issued[i].token), context |-> Str(issued[i].context)] :
      i \in 1..Len(issued) }
  \cup { [token |-> Str(Meh), context |-> Undefined] }

\* The bodies sent to encode, one after the other and then again from the
\* first: two invocations begun one after the other encode different
\* payloads.
CallPayloads == << << >>, << << NameKey, << 97 >> >> >> >>
NextPayload == CallPayloads[(EncodesBegun % Len(CallPayloads)) + 1]

NextCalls ==
  \/ \E c \in Calls : BeginEncode(c, NextPayload)
  \/ \E c \in Calls, body \in CallBodies : BeginDecode(c, body)
  \/ \E c \in Calls : UpdateHmac(c)
  \/ \E c \in Calls : FinishEncode(c, IvZero)
  \/ \E c \in Calls : FinishDecode(c)

SpecCalls == Init /\ [][NextCalls]_vars

(***************************************************************************)
(* GET /user/:USERID and GET /user/qr/:USERID: reads of the user database  *)
(* behind a permission gate.                                               *)
(***************************************************************************)
\* The roles a requester's token can carry.
RoleSets == { {"ATTENDEE"}, {"STAFF"}, {"STAFF", "ADMIN"} }

\* Elevated permissions: staff or admin.
ElevatedNever(roles) == FALSE
Elevated(roles) == roles \cap {"STAFF", "ADMIN"} # {}

\* The gate: the requester is the target or holds elevated permissions.
MayReadAnyone(requester, roles, target) == TRUE
MayRead(requester, roles, target) == requester = target \/ Elevated(roles)

Forbidden == [status |-> 403, error |-> "Forbidden", userId |-> ""]
UserNotFound == [status |-> 404, error |-> "UserNotFound", userId |-> ""]

\* GET /user/:USERID: the record of the target, when the gate lets the
\* requester through and the record exists.
GetUser(db, requester, roles, target) ==
  IF ~MayRead(requester, roles, target) THEN Forbidden
  ELSE IF target \in db
    THEN [status |-> SuccessOK, error |-> "", userId |-> target]
  ELSE UserNotFound

\* GET /user/qr/:USERID: a QR token made for the target, when the gate lets
\* the requester through.
GetUserQr(requester, roles, target) ==
  IF ~MayRead(requester, roles, target) THEN Forbidden
  ELSE [status |-> SuccessOK, error |-> "", userId |-> target]

Asked(route, requester, roles, target, res) ==
  [route |-> route, requester |-> requester, roles |-> roles,
   target |-> target, found |-> target \in users, res |-> res]

AskUser(requester, roles, target) ==
  /\ answer' = Asked("user", requester, roles, target,
                     GetUser(users, requester, roles, target))
  /\ UNCHANGED << aes, issued, req, resp, crafted, calls, hmacs, users >>
  /\ UNCHANGED << attendance, attendees, now, posts, reply >>

AskUserQr(requester, roles, target) ==
  /\ answer' = Asked("qr", requester, roles, target,
                     GetUserQr(requester, roles, target))
  /\ UNCHANGED << aes, issued, req, resp, crafted, calls, hmacs, users >>
  /\ UNCHANGED << attendance, attendees, now, posts, reply >>

\* Models.UserInfo.deleteOne and Models.UserInfo.create of the tests.
DeleteUser(u) ==
  /\ u \in users
  /\ users' = users \ {u}
  /\ UNCHANGED << aes, issued, req, resp, crafted, calls, hmacs, answer >>
  /\ UNCHANGED << attendance, attendees, now, posts, reply >>

CreateUser(u) ==
  /\ u \notin users
  /\ users' = users \cup {u}
  /\ UNCHANGED << aes, issued, req, resp, crafted, calls, hmacs, answer >>
  /\ UNCHANGED << attendance, attendees, now, posts, reply >>

NextUser ==
  \/ \E requester \in UserIds, roles \in RoleSets, target \in UserIds :
       AskUser(requester, roles, target)
  \/ \E requester \in UserIds, roles \in RoleSets, target \in UserIds :
       AskUserQr(requester, roles, target)
  \/ \E u \in UserIds : DeleteUser(u)
  \/ \E u \in UserIds : CreateUser(u)

SpecUser == Init /\ [][NextUser]_vars

(***************************************************************************)
(* POST /staff/attendance: a staff user records their attendance at an     *)
(* event.  The handler awaits the database three times, and the requests   *)
(* in flight interleave at these points.                                   *)
(***************************************************************************)
\* The requesters: who asks, and the roles of their token.
Requesters ==
  { << "tester", {"ATTENDEE"} >>, << "other-user", {"STAFF"} >>,
    << "user3", {"STAFF", "ADMIN"} >> }

\* hasStaffPerms(payload)
HasStaffPerms(roles) == "STAFF" \in roles

\* metadata.exp <= timestamp
ExpiredAfter(exp, timestamp) == exp < timestamp
Expired(exp, timestamp) == exp <= timestamp

\* { $addToSet: { field: value } } on the array of a document
Push(array, value) == Append(array, value)
AddToSet(array, value) ==
  IF \E i \in 1..Len(array) : array[i] = value
    THEN array
  ELSE Append(array, value)

Replied(status, error, userId, eventId) ==
  [status |-> status, error |-> error,
   repeat |-> /\ eventId \in DOMAIN EventExp
              /\ \E i \in 1..Len(attendees[eventId]) :
                   attendees[eventId][i] = userId]

\* Lines 130-144: the permission and parameter checks, then the read of the
\* event's metadata is awaited.
PostAttendance(c, userId, roles, eventId) ==
  /\ posts[c].pc = "idle"
  /\ \A d \in 1..MaxPosts : d < c => posts[d].pc # "idle"
  /\ IF ~HasStaffPerms(roles)
       THEN /\ reply' = Replied(403, "Forbidden", userId, eventId)
            /\ UNCHANGED posts
     ELSE IF eventId = ""
       THEN /\ reply' = Replied(ClientErrorBadRequest, "InvalidParams",
                                userId, eventId)
            /\ UNCHANGED posts
     ELSE /\ posts' = [posts EXCEPT ![c] =
                 [pc |-> "findOne", userId |-> userId, roles |-> roles,
                  eventId |-> eventId]]
          /\ UNCHANGED reply
  /\ UNCHANGED << attendance, attendees, now >>
  /\ UNCHANGED << aes, issued, req, resp, crafted, calls, hmacs, users, answer >>

\* Lines 146-157: the metadata has arrived; the event must exist and must
\* not have expired at the current second.  Then the update of the user's
\* attendance is awaited.
AfterFindOne(c) ==
  /\ posts[c].pc = "findOne"
  /\ LET userId == posts[c].userId
         eventId == posts[c].eventId
     IN  IF eventId \notin DOMAIN EventExp
           THEN /\ reply' = Replied(404, "EventNotFound", userId, eventId)
                /\ posts' = [posts EXCEPT ![c] = IdlePost]
         ELSE IF Expired(EventExp[eventId], now)
           THEN /\ reply' = Replied(ClientErrorBadRequest, "CodeExpired",
                                    userId, eventId)
                /\ posts' = [posts EXCEPT ![c] = IdlePost]
         ELSE /\ posts' = [posts EXCEPT ![c].pc = "userUpdate"]
              /\ UNCHANGED reply
  /\ UNCHANGED << attendance, attendees, now >>
  /\ UNCHANGED << aes, issued, req, resp, crafted, calls, hmacs, users, answer >>

\* Line 157: Models.UserAttendance.findOneAndUpdate resolves; the update of
\* the event's attendees is awaited.
UserUpdate(c) ==
  /\ posts[c].pc = "userUpdate"
  /\ attendance' = [attendance EXCEPT ![posts[c].userId] =
                      AddToSet(@, posts[c].eventId)]
  /\ posts' = [posts EXCEPT ![c].pc = "eventUpdate"]
  /\ UNCHANGED << attendees, now, reply >>
  /\ UNCHANGED << aes, issued, req, resp, crafted, calls, hmacs, users, answer >>

\* Lines 158-159: Models.EventAttendance.findOneAndUpdate resolves and the
\* handler answers.
EventUpdate(c) ==
  /\ posts[c].pc = "eventUpdate"
  /\ attendees' = [attendees EXCEPT ![posts[c].eventId] =
                     AddToSet(@, posts[c].userId)]
  /\ reply' = Replied(SuccessOK, "", posts[c].userId, posts[c].eventId)
  /\ posts' = [posts EXCEPT ![c] = IdlePost]
  /\ UNCHANGED << attendance, now >>
  /\ UNCHANGED << aes, issued, req, resp, crafted, calls, hmacs, users, answer >>

\* Lines 157-158: an awaited update rejects.  Nothing catches the rejection:
\* the handler ends there and what was written stays written.
UpdateRejects(c) ==
  /\ posts[c].pc \in {"userUpdate", "eventUpdate"}
  /\ reply' = Replied(500, "UnhandledRejection", posts[c].userId,
                      posts[c].eventId)
  /\ posts' = [posts EXCEPT ![c] = IdlePost]
  /\ UNCHANGED << attendance, attendees, now >>
  /\ UNCHANGED << aes, issued, req, resp, crafted, calls, hmacs, users, answer >>

\* Date.now() moves on by a second.
Tick ==
  /\ now < MaxTime
  /\ now' = now + 1
  /\ UNCHANGED << attendance, attendees, posts, reply >>
  /\ UNCHANGED << aes, issued, req, resp, crafted, calls, hmacs, users, answer >>

NextStaff ==
  \/ \E c \in 1..MaxPosts, payload \in Requesters,
        eventId \in DOMAIN EventExp \cup {"event3", ""} :
       PostAttendance(c, payload[1], payload[2], eventId)
  \/ \E c \in 1..MaxPosts : AfterFindOne(c)
  \/ \E c \in 1..MaxPosts : UserUpdate(c)
  \/ \E c \in 1..MaxPosts : EventUpdate(c)
  \/ \E c \in 1..MaxPosts : UpdateRejects(c)
  \/ Tick

SpecStaff == Init /\ [][NextStaff]_vars

(***************************************************************************)
(* What a decode request decrypts to, as the properties read it.           *)
(***************************************************************************)
Ciphertext(body) == BufferFrom(body.token, "base64")
Iv(body) == BufferFrom(body.context, "hex")
BothPresent(body) == Truthy(body.token) /\ Truthy(body.context)

\* The context is no 16-byte IV, the ciphertext is empty or not whole
\* blocks, or what it decrypts to does not end in valid padding.
DecryptionFails(body) ==
  \/ ~Ciphertext(body).ok
  \/ ~Iv(body).ok
  \/ Len(Iv(body).val) # IvLen
  \/ Len(Ciphertext(body).val) = 0
  \/ Len(Ciphertext(body).val) % BlockSize # 0
  \/ ~Unpad(CbcDecrypt(aes, Iv(body).val, Ciphertext(body).val)).ok

\* The pieces of the decrypted block: the encoded part, the signature part.
Parts(body) ==
  SplitOnDot(Utf8Decode(
    Unpad(CbcDecrypt(aes, Iv(body).val, Ciphertext(body).val)).val))
SignatureMatches(parts) ==
  Len(parts) >= 2 /\ parts[2] = EncodeSignature(parts[1])

Decoded == resp.op = "decode"
Failed(messages) ==
  resp.res.status = ClientErrorBadRequest /\ resp.res.error \in messages

(***************************************************************************)
(* Round trip                                                              *)
(***************************************************************************)
\* C1: every payload is encoded with 200, and decoding the returned pair
\* gives 200 and the payload.
C1_RoundTrip ==
  /\ resp.op = "encode" => resp.res.status = SuccessOK
  /\ (Decoded /\ resp.body.note.kind = "issued") =>
       /\ resp.res.status = SuccessOK
       /\ resp.res.payload = issued[resp.body.note.tok].payload

\* C9: encode of a JSON payload has no error outcome: it answers 200 with a
\* token and a context.
C9_EncodeNeverFails ==
  resp.op = "encode" =>
    /\ resp.res.error = ""
    /\ Len(resp.res.token) > 0
    /\ Len(resp.res.context) = 2 * IvLen

\* C10 as stated: two encode calls on the same payload return different
\* tokens.
C10_TokensDiffer ==
  \A i, j \in 1..Len(issued) :
    (i # j /\ issued[i].payload = issued[j].payload)
      => issued[i].token # issued[j].token

\* C10: two encode calls on the same payload return different tokens exactly
\* when they drew different IVs, and each returned pair decodes to the
\* payload.
C10_TokensDifferWithIv ==
  /\ \A i, j \in 1..Len(issued) :
       (i # j /\ issued[i].payload = issued[j].payload)
         => (issued[i].token # issued[j].token
               <=> issued[i].context # issued[j].context)
  /\ (Decoded /\ resp.body.note.kind = "issued") =>
       /\ resp.res.status = SuccessOK
       /\ resp.res.payload = issued[resp.body.note.tok].payload

\* Two calls on one payload drew different IVs, and the second pair has
\* been decoded.
C10_Witness ==
  /\ Len(issued) = 2
  /\ issued[1].payload = issued[2].payload
  /\ issued[1].context # issued[2].context
  /\ issued[1].token # issued[2].token
  /\ Decoded /\ resp.body.note.kind = "issued" /\ resp.body.note.tok = 2
  /\ resp.res.payload = issued[2].payload

(***************************************************************************)
(* Integrity                                                               *)
(***************************************************************************)
\* C2: a token with one ciphertext byte changed, decoded with its own
\* context, fails with InvalidParams or Unauthorized.
C2_TamperDetected ==
  (Decoded /\ resp.body.note.kind = "tampered")
    => Failed({"InvalidParams", "Unauthorized"})

\* C3: a token decoded with the context of another encode call, the two
\* contexts being different, fails with InvalidParams or Unauthorized.
C3_ContextBinding ==
  (/\ Decoded
   /\ resp.body.note.kind = "mixed"
   /\ issued[resp.body.note.tok].context # issued[resp.body.note.ctx].context)
    => Failed({"InvalidParams", "Unauthorized"})

C5_SuccessImpliesSignature ==
  (Decoded /\ resp.res.status = SuccessOK)
    => (/\ BothPresent(resp.body)
        /\ ~DecryptionFails(resp.body)
        /\ SignatureMatches(Parts(resp.body)))

\* A block no encode call produced, correctly signed, has been accepted.
C5_Witness ==
  /\ Decoded
  /\ resp.body.note.kind = "forged"
  /\ resp.res.status = SuccessOK
  /\ SignatureMatches(Parts(resp.body))

(***************************************************************************)
(* Error outcomes of decode                                                *)
(***************************************************************************)
\* C6: a decode body whose token or context is absent or empty is answered
\* 400 MissingParams, and nothing but the check has run.
C6_MissingParams ==
  (Decoded /\ ~BothPresent(resp.body))
    => (/\ resp.res.status = ClientErrorBadRequest
        /\ resp.res.error = "MissingParams"
        /\ resp.res.trace = << "check" >>)

\* A body with a token and no context has been answered MissingParams.
C6_Witness ==
  /\ Decoded
  /\ Truthy(resp.body.token)
  /\ ~Truthy(resp.body.context)
  /\ resp.res.error = "MissingParams"

\* C7: a decode body with both fields present whose decoding or decryption
\* fails is answered 400 InvalidParams.
C7_InvalidParams ==
  (Decoded /\ BothPresent(resp.body) /\ DecryptionFails(resp.body))
    => (resp.res.status = ClientErrorBadRequest
          /\ resp.res.error = "InvalidParams")

\* Whole blocks under a 16-byte IV that decrypt to bad padding have been
\* answered InvalidParams.
C7_Witness ==
  /\ Decoded
  /\ BothPresent(resp.body)
  /\ Ciphertext(resp.body).ok /\ Iv(resp.body).ok
  /\ Len(Iv(resp.body).val) = IvLen
  /\ Len(Ciphertext(resp.body).val) > 0
  /\ Len(Ciphertext(resp.body).val) % BlockSize = 0
  /\ DecryptionFails(resp.body)
  /\ resp.res.error = "InvalidParams"

\* C8: every decode request is answered 200 or 400 with exactly one of
\* MissingParams, InvalidParams and Unauthorized; no exception leaves the
\* handler.
C8_StructuredOutcome ==
  Decoded =>
    \/ resp.res.status = SuccessOK /\ resp.res.error = ""
    \/ Failed({"MissingParams", "InvalidParams", "Unauthorized"})

\* A body whose fields are no strings has thrown inside the handler and
\* been answered InvalidParams.
C8_Witness ==
  /\ Decoded
  /\ resp.body.token.type = "number"
  /\ Truthy(resp.body.token)
  /\ resp.res.status = ClientErrorBadRequest
  /\ resp.res.error = "InvalidParams"

(***************************************************************************)
(* What a caller sees, and the stages of decode                            *)
(***************************************************************************)
\* The response as the caller receives it: status and body.
Observable(res) ==
  [status |-> res.status, error |-> res.error, payload |-> res.payload]
InvalidParamsResponse ==
  [status |-> ClientErrorBadRequest, error |-> "InvalidParams",
   payload |-> NoPayload]

\* The encoded part parses: atob accepts it and JSON.parse its text.
PayloadParses(body) == ParsePayload(Parts(body)[1]).ok

\* C11: every malformed-input cause of decode (a token or context that does
\* not decode, a wrong IV length, a cipher or padding failure, an empty
\* encoded part, a verified payload that does not parse) gives the caller
\* the one response 400 InvalidParams.
C11_OneInvalidParams ==
  (/\ Decoded
   /\ BothPresent(resp.body)
   /\ \/ DecryptionFails(resp.body)
      \/ Len(Parts(resp.body)[1]) = 0
      \/ SignatureMatches(Parts(resp.body)) /\ ~PayloadParses(resp.body))
    => Observable(resp.res) = InvalidParamsResponse

\* A correctly signed block whose encoded part is no JSON has been answered
\* InvalidParams.
C11_Witness ==
  /\ Decoded
  /\ BothPresent(resp.body)
  /\ ~DecryptionFails(resp.body)
  /\ SignatureMatches(Parts(resp.body))
  /\ ~PayloadParses(resp.body)
  /\ Observable(resp.res) = InvalidParamsResponse

\* The steps of decode in the order of the handler's text.
DecodeStages ==
  << "check", "base64", "hex", "decipher", "split", "hmac", "compare",
     "parse", "send" >>
IsPrefix(s, t) == Len(s) <= Len(t) /\ SubSeq(t, 1, Len(s)) = s
Last(s) == s[Len(s)]

\* The outcome of a decode that stopped after the given step.
OutcomeAfter(stage) ==
  CASE stage = "check" -> "MissingParams"
    [] stage \in {"base64", "hex", "decipher", "split", "parse"} ->
         "InvalidParams"
    [] stage = "compare" -> "Unauthorized"
    [] stage = "send" -> ""

\* C12: a decode runs a prefix of check, decrypt, split, verify, parse,
\* return and ends in the one outcome of the step it stopped at; the payload
\* is parsed and returned only after the signature has been verified.
C12_StageOrder ==
  Decoded =>
    /\ Len(resp.res.trace) > 0
    /\ IsPrefix(resp.res.trace, DecodeStages)
    /\ Last(resp.res.trace) # "hmac"
    /\ resp.res.error = OutcomeAfter(Last(resp.res.trace))
    /\ resp.res.status = SuccessOK <=> Last(resp.res.trace) = "send"
    /\ resp.res.status # SuccessOK => resp.res.status = ClientErrorBadRequest
    /\ IsIn(resp.res.trace, "parse") =>
         (~DecryptionFails(resp.body) /\ SignatureMatches(Parts(resp.body)))

\* A decode has stopped at the signature comparison: nothing was parsed.
C12_Witness ==
  /\ Decoded
  /\ resp.res.trace = SubSeq(DecodeStages, 1, 7)
  /\ resp.res.error = "Unauthorized"
  /\ PayloadParses(resp.body)

(***************************************************************************)
(* The split of the decrypted block                                        *)
(***************************************************************************)
\* The text after the first '.', the empty text when there is none.
AfterFirstDot(str) ==
  IF IsIn(str, Dot) THEN Drop(str, IndexOf(str, Dot)) ELSE << >>
Plaintext(body) ==
  Utf8Decode(Unpad(CbcDecrypt(aes, Iv(body).val, Ciphertext(body).val)).val)

\* C17: the signature decode verifies is all of the text after the first
\* '.': a request is answered 200 only if the decrypted text goes on after
\* its encoded part and what follows the first '.' is the HMAC of the
\* encoded part.
C17_SplitOnFirstDot ==
  (/\ Decoded
   /\ resp.res.status = SuccessOK)
    => LET text == Plaintext(resp.body)
           encoded == Parts(resp.body)[1]
       IN  /\ Len(text) > Len(encoded)
           /\ AfterFirstDot(text) = EncodeSignature(encoded)

\* C18: a request that decrypts to a block with an empty encoded part is
\* answered 400 InvalidParams, no signature having been computed or
\* compared.
C18_EmptyEncoded ==
  (/\ Decoded
   /\ BothPresent(resp.body)
   /\ ~DecryptionFails(resp.body)
   /\ Len(Parts(resp.body)[1]) = 0)
    => (/\ Observable(resp.res) = InvalidParamsResponse
        /\ ~IsIn(resp.res.trace, "hmac")
        /\ ~IsIn(resp.res.trace, "compare"))

\* A block that starts with '.' and goes on with a signature has been
\* answered InvalidParams.
C18_Witness ==
  /\ Decoded
  /\ BothPresent(resp.body)
  /\ ~DecryptionFails(resp.body)
  /\ Len(Parts(resp.body)) >= 2
  /\ Len(Parts(resp.body)[1]) = 0
  /\ Len(Parts(resp.body)[2]) > 0
  /\ resp.res.error = "InvalidParams"

\* C19: decode answers Unauthorized only when the ciphertext decrypted
\* without error and the block has a non-empty encoded part; a failure of
\* decryption or padding is answered InvalidParams.
C19_UnauthorizedAfterDecrypt ==
  /\ (Decoded /\ resp.res.error = "Unauthorized")
       => (/\ BothPresent(resp.body)
           /\ ~DecryptionFails(resp.body)
           /\ Len(Parts(resp.body)[1]) > 0)
  /\ (Decoded /\ BothPresent(resp.body) /\ DecryptionFails(resp.body))
       => resp.res.error = "InvalidParams"

\* A block with a JSON encoded part and another signature has been answered
\* Unauthorized.
C19_Witness ==
  /\ Decoded
  /\ resp.res.error = "Unauthorized"
  /\ ~DecryptionFails(resp.body)
  /\ Len(Parts(resp.body)) >= 2
  /\ Len(Parts(resp.body)[2]) > 0
  /\ PayloadParses(resp.body)

\* C20: a request that decrypts to a non-empty block without '.' is
\* answered Unauthorized.
C20_NoDelimiterUnauthorized ==
  (/\ Decoded
   /\ BothPresent(resp.body)
   /\ ~DecryptionFails(resp.body)
   /\ Len(Plaintext(resp.body)) > 0
   /\ ~IsIn(Plaintext(resp.body), Dot))
    => (resp.res.status = ClientErrorBadRequest
          /\ resp.res.error = "Unauthorized")

\* A block that is an encoded JSON payload and nothing else has been
\* answered Unauthorized.
C20_Witness ==
  /\ Decoded
  /\ BothPresent(resp.body)
  /\ ~DecryptionFails(resp.body)
  /\ Len(Parts(resp.body)) = 1
  /\ PayloadParses(resp.body)
  /\ resp.res.error = "Unauthorized"

(***************************************************************************)
(* Invocations in flight together, and one after another                   *)
(***************************************************************************)
\* The pair an encode invocation returned, as a decode body.
Returned(res) == [token |-> Str(res.token), context |-> Str(res.context)]

\* C13: whatever steps of other invocations fall between its own, an
\* invocation ends with the result its handler gives when run alone on the
\* same input (and, for encode, the same IV), and the pair an encode
\* returned decodes to its payload.
C13_SameAsAlone ==
  /\ resp.op = "decode" => resp.res = DecodeHandler(aes, resp.body)
  /\ resp.op = "encode" =>
       /\ resp.res = EncodeHandler(resp.before, resp.body, resp.iv).res
       /\ resp.res.status = SuccessOK =>
            Observable(DecodeHandler(aes, Returned(resp.res)))
              = [status |-> SuccessOK, error |-> "", payload |-> resp.body]

\* A decode has returned the payload with an encode in flight that has fed
\* its hmac object and not yet taken the digest.
C13_Witness ==
  /\ resp.op = "decode"
  /\ resp.overlapped
  /\ resp.res.status = SuccessOK
  /\ \E d \in Calls : calls[d].pc = "updated" /\ calls[d].op = "encode"

\* The pair the i-th encode returned.
IssuedPair(i) ==
  [token |-> Str(issued[i].token), context |-> Str(issued[i].context)]

\* C14: after any sequence of earlier encode and decode invocations, the
\* decode of a pair encode returned answers 200 with the pair's payload,
\* also when the same pair was decoded just before.
C14_SameAfterAnyHistory ==
  \A i \in 1..Len(issued) :
    (resp.op = "decode" /\ resp.body = IssuedPair(i))
      => Observable(resp.res)
           = [status |-> SuccessOK, error |-> "",
              payload |-> issued[i].payload]

\* The first pair, decoded just before, has been decoded again after every
\* encode the run allows.
C14_Witness ==
  /\ Len(issued) = MaxIssued
  /\ resp.op = "decode"
  /\ resp.again
  /\ resp.body = IssuedPair(1)
  /\ resp.res.status = SuccessOK

(***************************************************************************)
(* The permission gate of the user routes                                  *)
(***************************************************************************)
Stranger(a) ==
  a.requester # a.target /\ a.roles \cap {"STAFF", "ADMIN"} = {}

C21_RecordsOnlyWhenAllowed ==
  [][ /\ \A c \in 1..MaxPosts :
           (posts[c].pc = "findOne" /\ posts'[c].pc = "userUpdate")
             => /\ posts[c].eventId \in DOMAIN EventExp
                /\ EventExp[posts[c].eventId] > now
      /\ \A c \in 1..MaxPosts :
           posts'[c].pc = "findOne" =>
             HasStaffPerms(posts'[c].roles) /\ posts'[c].eventId # ""
      /\ (attendance' # attendance \/ attendees' # attendees)
           => \E c \in 1..MaxPosts :
                /\ posts[c].pc \in {"userUpdate", "eventUpdate"}
                /\ posts[c].pc # posts'[c].pc
      /\ ( /\ reply' # reply
           /\ reply'.error \in
                {"Forbidden", "InvalidParams", "EventNotFound", "CodeExpired"} )
           => attendance' = attendance /\ attendees' = attendees
    ]_vars

\* A request for an event that has expired is refused after a request of
\* the same user for that event had succeeded in time.
C21_Witness ==
  /\ reply.error = "CodeExpired"
  /\ reply.repeat

\* C22: when no request is in flight, eventId is in the attendance of userId
\* exactly when userId is among the attendees of eventId.
C22_BothOrNeither ==
  (\A c \in 1..MaxPosts : posts[c].pc = "idle")
    => \A userId \in UserIds, eventId \in DOMAIN EventExp :
         (\E i \in 1..Len(attendance[userId]) :
            attendance[userId][i] = eventId)
           <=> (\E j \in 1..Len(attendees[eventId]) :
                  attendees[eventId][j] = userId)

\* C23: a request that repeats a recorded attendance leaves both
\* collections as they are, and no array ever holds an entry twice.
C23_Idempotent ==
  [][ /\ \A userId \in UserIds :
           \A i, j \in 1..Len(attendance'[userId]) :
             attendance'[userId][i] = attendance'[userId][j] => i = j
      /\ \A eventId \in DOMAIN EventExp :
           \A i, j \in 1..Len(attendees'[eventId]) :
             attendees'[eventId][i] = attendees'[eventId][j] => i = j
      /\ \A c \in 1..MaxPosts :
           ( /\ posts[c].pc = "userUpdate" /\ posts'[c].pc = "eventUpdate"
             /\ \E i \in 1..Len(attendance[posts[c].userId]) :
                  attendance[posts[c].userId][i] = posts[c].eventId )
             => attendance' = attendance
      /\ \A c \in 1..MaxPosts :
           ( /\ posts[c].pc = "eventUpdate" /\ posts'[c].pc = "idle"
             /\ \E i \in 1..Len(attendees[posts[c].eventId]) :
                  attendees[posts[c].eventId][i] = posts[c].userId )
             => attendees' = attendees
    ]_vars

\* A request has succeeded for a user and an event for which an earlier
\* request had succeeded.
C23_Witness ==
  /\ reply.status = SuccessOK
  /\ reply.repeat

====
